---- MODULE Spec2Model ----
(***************************************************************************)
(* Model of utilities/tree_utils.py: the TreeDF class (tree_to_df,         *)
(* df_to_tree, validate, load_from_csv) and the query functions            *)
(* get_children, get_descendants, get_ancestors, get_siblings.             *)
(*                                                                         *)
(* A Python str is a sequence of one-character strings, so that the        *)
(* f-string of tree_to_df, str.startswith, str.split and str.join are      *)
(* computed character by character.  A DataFrame is the sequence of its    *)
(* rows in index order; a row is a record of the columns id, code, name,   *)
(* parent_id, parent_code, level, path, order, is_leaf.  The columns       *)
(* is_active, created_at and updated_at are written once and never read    *)
(* by any function of the module; they are left out.                       *)
(***************************************************************************)
EXTENDS Integers, Sequences, FiniteSets

VARIABLES df, calls, op, arg, ret

vars == <<df, calls, op, arg, ret>>

\* ------------------------------------------------------------------ bounds

\* Largest number of rows a table built by tree_to_df holds (and so the
\* largest number of nodes of an input tree).
MaxRows == 4

\* Largest number of rows of a table read by load_from_csv.
MaxLoadRows == 2

\* Largest id, parent_id and level found in a table read by load_from_csv.
MaxLoadInt == 2

\* ----------------------------------------------------------------- strings

SEP == <<"/">>

\* The default of tree_to_df's parameter parent_id (Optional[int] = None).
None == -1

\* The default of tree_to_df's parameter parent_code.
EmptyStr == <<>>

\* str.startswith
startswith(s, prefix) ==
  /\ Len(prefix) <= Len(s)
  /\ SubSeq(s, 1, Len(prefix)) = prefix

\* str.split(sep) for a one-character separator: the segments between the
\* separators, empty segments included.
RECURSIVE split_from(_, _, _)
split_from(s, i, cur) ==
  IF i > Len(s) THEN <<cur>>
  ELSE IF <<s[i]>> = SEP THEN <<cur>> \o split_from(s, i + 1, <<>>)
  ELSE split_from(s, i + 1, Append(cur, s[i]))

split(s) == split_from(s, 1, <<>>)

\* sep.join(parts)
RECURSIVE join(_)
join(parts) ==
  IF Len(parts) = 0 THEN <<>>
  ELSE IF Len(parts) = 1 THEN parts[1]
  ELSE parts[1] \o SEP \o join(Tail(parts))

\* ------------------------------------------------------------- input trees

\* The (dept, name) pairs an input node carries, named after the departments
\* A .. D of the module's usage example.
NodeLabels ==
  { [dept |-> <<"A">>, name |-> <<"x">>],
    [dept |-> <<"B">>, name |-> <<"y">>],
    [dept |-> <<"C">>, name |-> <<"x">>],
    [dept |-> <<"D">>, name |-> <<"y">>] }

\* The nested trees with exactly n nodes, and the ordered forests with
\* exactly m nodes in all.
RECURSIVE TreesOfSize(_), ForestsOfSize(_)
TreesOfSize(n) ==
  IF n < 1 THEN {}
  ELSE { [dept |-> l.dept, name |-> l.name, children |-> cs] :
           l \in NodeLabels, cs \in ForestsOfSize(n - 1) }

ForestsOfSize(m) ==
  IF m = 0 THEN {<<>>}
  ELSE UNION { { <<t>> \o f : t \in TreesOfSize(k), f \in ForestsOfSize(m - k) } :
               k \in 1..m }

TreesUpTo(n) == UNION { TreesOfSize(k) : k \in 1..n }

RECURSIVE Size(_), SizeAll(_)
Size(t) == 1 + SizeAll(t.children)

SizeAll(ts) == IF Len(ts) = 0 THEN 0 ELSE Size(ts[1]) + SizeAll(Tail(ts))

\* ---------------------------------------------------------------- TreeDF

\* _create_empty_df
create_empty_df == <<>>

\* A slip of tree_to_df, line 56: the id is the table's length, from 0.
current_id_from_zero(d) == Len(d)

\* tree_to_df, line 56
current_id(d) == Len(d) + 1

\* tree_to_df, line 58
current_path(parent_code, current_code) ==
  IF parent_code # EmptyStr THEN parent_code \o SEP \o current_code
  ELSE current_code

\* tree_to_df, lines 61-74
new_row(d, tree, parent_id, parent_code, level, order) ==
  [ id          |-> current_id(d),
    code        |-> tree.dept,
    name        |-> tree.name,
    parent_id   |-> IF parent_id # None THEN parent_id ELSE 0,
    parent_code |-> parent_code,
    level       |-> level,
    path        |-> current_path(parent_code, tree.dept),
    order       |-> order,
    is_leaf     |-> Len(tree.children) = 0 ]

\* A slip of tree_to_df, line 83: the children taken last to first.
enumerate_children_reversed(children, i) == children[Len(children) + 1 - i]

\* tree_to_df, line 83: the i-th (1-based) child that enumerate yields.
enumerate_children(children, i) == children[i]

\* tree_to_df: append the node's row, then recurse into the children in
\* input order, each on the table the previous one left.
RECURSIVE tree_to_df(_, _, _, _, _, _), tree_to_df_children(_, _, _, _, _, _)
tree_to_df(d, tree, parent_id, parent_code, level, order) ==
  tree_to_df_children(
    Append(d, new_row(d, tree, parent_id, parent_code, level, order)),
    tree.children, 1, current_id(d), tree.dept, level + 1)

tree_to_df_children(d, children, i, parent_id, parent_code, level) ==
  IF i > Len(children) THEN d
  ELSE tree_to_df_children(
         tree_to_df(d, enumerate_children(children, i),
                    parent_id, parent_code, level, i),
         children, i + 1, parent_id, parent_code, level)

\* .iloc[0] raises IndexError on an empty selection.
IndexError == [ok |-> FALSE, err |-> "IndexError"]

\* Python's recursion limit, hit when build_node never returns.
RecursionError == [ok |-> FALSE, err |-> "RecursionError"]

Ok(v) == [ok |-> TRUE, val |-> v]

\* df[df['id'] == node_id]: the rows under the mask, in table order
rows_with_id(d, node_id) == SelectSeq(d, LAMBDA r : r.id = node_id)

\* df[df['parent_id'] == node_id]
rows_with_parent(d, node_id) == SelectSeq(d, LAMBDA r : r.parent_id = node_id)

\* sort_values('order'): insert row r into the sorted sequence s after every
\* row whose order is not larger.  (numpy sorts a partition of at most 16
\* elements by insertion, so rows of equal order keep their table order.)
RECURSIVE insert_by_order(_, _)
insert_by_order(s, r) ==
  IF Len(s) = 0 THEN <<r>>
  ELSE IF s[1].order <= r.order THEN <<s[1]>> \o insert_by_order(Tail(s), r)
  ELSE <<r>> \o s

RECURSIVE sort_by_order_from(_, _, _)
sort_by_order_from(d, i, acc) ==
  IF i > Len(d) THEN acc
  ELSE sort_by_order_from(d, i + 1, insert_by_order(acc, d[i]))

\* A slip of df_to_tree, line 113: sort_values('order', ascending=False).
sort_values_order_descending(d) ==
  LET asc == sort_by_order_from(d, 1, <<>>)
  IN  [ i \in 1..Len(asc) |-> asc[Len(asc) + 1 - i] ]

\* df_to_tree, line 113: .sort_values('order')
sort_values_order(d) == sort_by_order_from(d, 1, <<>>)

\* df_to_tree, line 113
children_of(d, node_id) == sort_values_order(rows_with_parent(d, node_id))

\* df_to_tree.build_node.  depth counts the open calls: once it passes the
\* number of rows an id is on the call stack twice, and the recursion never
\* ends.  The result is Ok(node) or RecursionError.
RECURSIVE build_node(_, _, _), build_nodes(_, _, _, _)
build_node(d, node_id, depth) ==
  IF depth > Len(d) THEN RecursionError
  ELSE
    LET node == rows_with_id(d, node_id)[1]
        kids == build_nodes(d, children_of(d, node_id), 1, depth + 1)
    IN  IF ~kids.ok THEN kids
        ELSE Ok([dept |-> node.code, name |-> node.name, id |-> node.id,
                 children |-> kids.val])

build_nodes(d, children, i, depth) ==
  IF i > Len(children) THEN Ok(<<>>)
  ELSE
    LET first == build_node(d, children[i].id, depth)
    IN  IF ~first.ok THEN first
        ELSE
          LET rest == build_nodes(d, children, i + 1, depth)
          IN  IF ~rest.ok THEN rest ELSE Ok(<<first.val>> \o rest.val)

\* df_to_tree, line 108: df[df['parent_id'] == 0]
root_rows(d) == rows_with_parent(d, 0)

\* df_to_tree
df_to_tree(d) ==
  IF Len(root_rows(d)) = 0 THEN IndexError
  ELSE build_node(d, root_rows(d)[1].id, 1)

\* validate, line 127
valid_parents(d, r) ==
  \/ r.parent_id = 0
  \/ \E i \in 1..Len(d) : d[i].id = r.parent_id

\* validate, line 134 and line 141
parent_row(d, r) == rows_with_id(d, r.parent_id)[1]

\* A slip of validate, line 135: the separator left out of the prefix.
path_ok_without_separator(d, r) == startswith(r.path, parent_row(d, r).path)

\* validate, line 135
path_ok(d, r) == startswith(r.path, parent_row(d, r).path \o SEP)

\* A slip of validate, line 142: the parent's level compared as it is.
level_ok_same_level(d, r) == r.level = parent_row(d, r).level

\* validate, line 142
level_ok(d, r) == r.level = parent_row(d, r).level + 1

\* validate: the three passes, each ending the call at its first failure.
validate(d) ==
  IF \E i \in 1..Len(d) : ~valid_parents(d, d[i]) THEN FALSE
  ELSE IF \E i \in 1..Len(d) : d[i].parent_id # 0 /\ ~path_ok(d, d[i]) THEN FALSE
  ELSE IF \E i \in 1..Len(d) : d[i].parent_id # 0 /\ ~level_ok(d, d[i]) THEN FALSE
  ELSE TRUE

\* ----------------------------------------------------------------- queries

get_children(d, node_id) == Ok(rows_with_parent(d, node_id))

\* get_descendants, line 179
descendant_rows(d, node) ==
  SelectSeq(d, LAMBDA r : startswith(r.path, node.path \o SEP))

get_descendants(d, node_id) ==
  IF Len(rows_with_id(d, node_id)) = 0 THEN IndexError
  ELSE Ok(descendant_rows(d, rows_with_id(d, node_id)[1]))

\* get_ancestors, lines 184-185
ancestor_paths(path) ==
  LET path_parts == split(path)
  IN  { join(SubSeq(path_parts, 1, i + 1)) : i \in 0..(Len(path_parts) - 2) }

\* get_ancestors, line 186
ancestor_rows(d, node) ==
  SelectSeq(d, LAMBDA r : r.path \in ancestor_paths(node.path))

get_ancestors(d, node_id) ==
  IF Len(rows_with_id(d, node_id)) = 0 THEN IndexError
  ELSE Ok(ancestor_rows(d, rows_with_id(d, node_id)[1]))

\* get_siblings, line 191
sibling_rows(d, node, node_id) ==
  SelectSeq(d, LAMBDA r : r.parent_id = node.parent_id /\ r.id # node_id)

\* A slip of get_siblings, line 190: no row with the id gives no siblings.
get_siblings_or_empty(d, node_id) ==
  IF Len(rows_with_id(d, node_id)) = 0 THEN Ok(<<>>)
  ELSE Ok(sibling_rows(d, rows_with_id(d, node_id)[1], node_id))

get_siblings(d, node_id) ==
  IF Len(rows_with_id(d, node_id)) = 0 THEN IndexError
  ELSE Ok(sibling_rows(d, rows_with_id(d, node_id)[1], node_id))

\* ------------------------------------------------------------ loaded tables

\* astype to a signed integer type of the given width: the value wraps.
astype_int(v, width) == ((v + 2 ^ (width - 1)) % (2 ^ width)) - 2 ^ (width - 1)

\* astype('int32'): every integer of the model lies in -2^31 .. 2^31 - 1,
\* where the cast keeps the value.
astype_int32(v) == v

\* optimize_memory: id and parent_id become int32, level int8, order int16;
\* the category and bool columns keep their values.
optimize_memory(d) ==
  [ i \in 1..Len(d) |->
      [ d[i] EXCEPT !.id = astype_int32(@),
                    !.parent_id = astype_int32(@),
                    !.level = astype_int(@, 8),
                    !.order = astype_int(@, 16) ] ]

\* load_from_csv: the table is whatever the file holds, re-encoded.
load_from_csv(file) == optimize_memory(file)

\* The path column of the files read.
CsvPaths == { <<"A">>, <<"A", "B">>, <<"A", "/", "B">> }

\* The rows of the files read: any id, parent_id and level, whether or not
\* they fit together.
CsvRows ==
  [ id          : 0..MaxLoadInt,
    code        : { <<"A">>, <<"B">> },
    name        : { <<"x">> },
    parent_id   : 0..MaxLoadInt,
    parent_code : { EmptyStr },
    level       : 1..MaxLoadInt,
    path        : CsvPaths,
    order       : { 1 },
    is_leaf     : { FALSE } ]

CsvFiles == UNION { [1..n -> CsvRows] : n \in 0..MaxLoadRows }

\* -------------------------------------------------------------- behaviour

Init ==
  /\ df = create_empty_df
  /\ calls = <<>>
  /\ op = "__init__"
  /\ arg = <<>>
  /\ ret = Ok(<<>>)

\* A top-level call tree_df.tree_to_df(tree): parent_id, parent_code, level
\* and order take their defaults.
TreeToDf(tree) ==
  /\ Len(df) + Size(tree) <= MaxRows
  /\ df' = tree_to_df(df, tree, None, EmptyStr, 1, 1)
  /\ calls' = Append(calls, tree)
  /\ op' = "tree_to_df"
  /\ arg' = tree
  /\ ret' = Ok(df')

\* A read-only call: the table and the record of the builds stay.
Query(name, a, r) ==
  /\ op' = name
  /\ arg' = a
  /\ ret' = r
  /\ UNCHANGED <<df, calls>>

DfToTree == Query("df_to_tree", <<>>, df_to_tree(df))

Validate == Query("validate", <<>>, Ok(validate(df)))

GetChildren(node_id) == Query("get_children", node_id, get_children(df, node_id))

GetDescendants(node_id) ==
  Query("get_descendants", node_id, get_descendants(df, node_id))

GetAncestors(node_id) ==
  Query("get_ancestors", node_id, get_ancestors(df, node_id))

GetSiblings(node_id) == Query("get_siblings", node_id, get_siblings(df, node_id))

\* The node ids a caller asks about: every id of the table, 0, and one id
\* past the last row.
NodeIds == 0..(Len(df) + 1)

Next ==
  \/ \E tree \in TreesUpTo(MaxRows - Len(df)) : TreeToDf(tree)
  \/ DfToTree
  \/ Validate
  \/ \E node_id \in NodeIds : GetChildren(node_id)
  \/ \E node_id \in NodeIds : GetDescendants(node_id)
  \/ \E node_id \in NodeIds : GetAncestors(node_id)
  \/ \E node_id \in NodeIds : GetSiblings(node_id)

Spec == Init /\ [][Next]_vars

\* A TreeDF whose table was read from a file: __init__, then load_from_csv.
InitLoaded ==
  /\ \E file \in CsvFiles : df = load_from_csv(file)
  /\ calls = <<>>
  /\ op = "load_from_csv"
  /\ arg = <<>>
  /\ ret = Ok(<<>>)

NextLoaded ==
  \/ DfToTree
  \/ Validate
  \/ \E node_id \in NodeIds : GetChildren(node_id)
  \/ \E node_id \in NodeIds : GetDescendants(node_id)
  \/ \E node_id \in NodeIds : GetAncestors(node_id)
  \/ \E node_id \in NodeIds : GetSiblings(node_id)

SpecLoaded == InitLoaded /\ [][NextLoaded]_vars

\* ------------------------------------------------- vocabulary of the claims

\* The nodes of a tree are named by position: <<>> is the root and
\* p \o <<i>> the i-th child of the node at p.
RECURSIVE Positions(_)
Positions(t) ==
  {<<>>} \cup UNION { { <<i>> \o p : p \in Positions(t.children[i]) } :
                      i \in 1..Len(t.children) }

RECURSIVE NodeAt(_, _)
NodeAt(t, p) == IF Len(p) = 0 THEN t ELSE NodeAt(t.children[p[1]], Tail(p))

IsPrefix(p, s) == Len(p) <= Len(s) /\ \A k \in 1..Len(p) : p[k] = s[k]

\* p comes before q in depth-first pre-order with children in input order.
Before(p, q) ==
  \/ p # q /\ IsPrefix(p, q)
  \/ \E k \in 1..Len(p) :
       /\ k <= Len(q)
       /\ \A j \in 1..(k - 1) : p[j] = q[j]
       /\ p[k] < q[k]

\* The 1-based place of position p in the pre-order of t.
Rank(t, p) == 1 + Cardinality({ q \in Positions(t) : Before(q, p) })

Parent(p) == SubSeq(p, 1, Len(p) - 1)

UniqueCodes(t) ==
  \A p, q \in Positions(t) : NodeAt(t, p).dept = NodeAt(t, q).dept => p = q

\* A tree as df_to_tree returns it, without the 'id' field.
RECURSIVE WithoutId(_)
WithoutId(t) ==
  [ dept |-> t.dept, name |-> t.name,
    children |-> [ i \in 1..Len(t.children) |-> WithoutId(t.children[i]) ] ]

Ids(d) == { d[i].id : i \in 1..Len(d) }

\* The table was built by one top-level tree_to_df call on a fresh TreeDF.
BuiltOnce == Len(calls) = 1

\* The first row of d whose id is id (the row a lookup by id takes).
RowOf(d, id) == d[CHOOSE i \in 1..Len(d) :
                    d[i].id = id /\ \A j \in 1..(i - 1) : d[j].id # id]

\* In a table built by tree_to_df: the ids on the parent_id chain of the
\* row with the given id, root first, the row itself excluded.
RECURSIVE Chain(_, _)
Chain(d, id) ==
  IF RowOf(d, id).parent_id = 0 THEN <<>>
  ELSE Append(Chain(d, RowOf(d, id).parent_id), RowOf(d, id).parent_id)

InChain(d, a, id) == \E k \in 1..Len(Chain(d, id)) : Chain(d, id)[k] = a

\* The usage example's tree cut to four nodes: A -> {B -> {D}, C}.
Leaf(l) == [dept |-> l.dept, name |-> l.name, children |-> <<>>]

LabelOf(c) == CHOOSE l \in NodeLabels : l.dept = c

SampleTree ==
  [ dept |-> <<"A">>, name |-> LabelOf(<<"A">>).name,
    children |->
      << [ dept |-> <<"B">>, name |-> LabelOf(<<"B">>).name,
           children |-> << Leaf(LabelOf(<<"D">>)) >> ],
         Leaf(LabelOf(<<"C">>)) >> ]

\* ------------------------------------------------------------------ claims

\* C1: a tree with unique codes, built into a fresh TreeDF by tree_to_df and
\* read back by df_to_tree, comes back with the same code, name and children
\* in the same order at every level (the 'id' field aside).
C1_RoundTrip ==
  (op = "df_to_tree" /\ BuiltOnce /\ UniqueCodes(calls[1]))
    => ret.ok /\ WithoutId(ret.val) = calls[1]

C1_Witness ==
  /\ op = "df_to_tree"
  /\ BuiltOnce
  /\ calls[1] = SampleTree
  /\ ret.ok

\* C2: validate() returns true on every table tree_to_df builds on a fresh
\* TreeDF.
C2_BuiltTablesValidate ==
  (op = "validate" /\ BuiltOnce) => ret = Ok(TRUE)

\* C3: in a table built by tree_to_df a root row's path is its code and a
\* non-root row's path is its parent row's path, '/', and its code.
C3_FullPath ==
  (Len(calls) >= 1) =>
    \A i \in 1..Len(df) :
       IF df[i].parent_id = 0 THEN df[i].path = df[i].code
       ELSE df[i].path = RowOf(df, df[i].parent_id).path \o SEP \o df[i].code

\* C4: on a table built from a tree with unique codes, get_descendants of a
\* node of the table returns exactly the rows reachable from it by one or
\* more parent_id -> child steps.
C4_Descendants ==
  (op = "get_descendants" /\ BuiltOnce /\ UniqueCodes(calls[1])
     /\ arg \in Ids(df))
    => /\ ret.ok
       /\ ret.val = SelectSeq(df, LAMBDA r : InChain(df, arg, r.id))

\* C5: on a table built from a tree with unique codes, get_ancestors of a
\* node of the table returns the rows of its parent_id chain, from the root
\* down to its parent; for a root, no rows.
C5_Ancestors ==
  (op = "get_ancestors" /\ BuiltOnce /\ UniqueCodes(calls[1])
     /\ arg \in Ids(df))
    => /\ ret.ok
       /\ ret.val = [ k \in 1..Len(Chain(df, arg)) |-> RowOf(df, Chain(df, arg)[k]) ]

\* Some row's nonzero parent_id is no row's id.
DanglingParent(d) ==
  \E i \in 1..Len(d) : d[i].parent_id # 0 /\ d[i].parent_id \notin Ids(d)

\* Some non-root row's path does not start with its parent's path and '/'.
PathMismatch(d) ==
  \E i \in 1..Len(d) :
     /\ d[i].parent_id # 0
     /\ d[i].parent_id \in Ids(d)
     /\ ~IsPrefix(RowOf(d, d[i].parent_id).path \o SEP, d[i].path)

\* Some non-root row's level is not its parent's level plus one.
LevelMismatch(d) ==
  \E i \in 1..Len(d) :
     /\ d[i].parent_id # 0
     /\ d[i].parent_id \in Ids(d)
     /\ d[i].level # RowOf(d, d[i].parent_id).level + 1

\* C6: validate() returns false exactly when some row's nonzero parent_id is
\* no row's id, or some non-root row's path does not start with its parent's
\* path followed by '/', or some non-root row's level is not its parent's
\* level plus one; it returns true otherwise, the empty table included.
C6_ValidateMeaning ==
  (op = "validate") =>
    ret = Ok(~(DanglingParent(df) \/ PathMismatch(df) \/ LevelMismatch(df)))

\* A table that validate() rejects and that differs from a table it accepts
\* in one row's parent_id, which is no row's id.
C6_Witness ==
  /\ op = "validate"
  /\ ret = Ok(FALSE)
  /\ \E i \in 1..Len(df) :
       /\ df[i].parent_id \notin Ids(df)
       /\ \E p \in Ids(df) \cup {0} :
            LET valid == [df EXCEPT ![i].parent_id = p]
            IN  ~(DanglingParent(valid) \/ PathMismatch(valid) \/ LevelMismatch(valid))

\* The data model's invariants 1 to 4.
Invariant1(d) ==
  /\ \A i, j \in 1..Len(d) : d[i].id = d[j].id => i = j
  /\ 0 \notin Ids(d)

Invariant2(d) == ~DanglingParent(d)

Invariant3(d) ==
  \A i \in 1..Len(d) :
     (d[i].parent_id # 0 /\ d[i].parent_id \in Ids(d))
       => d[i].path = RowOf(d, d[i].parent_id).path \o SEP \o d[i].code

Invariant4(d) ==
  /\ ~LevelMismatch(d)
  /\ \A i \in 1..Len(d) : d[i].parent_id = 0 => d[i].level = 1

\* C7: a table validate() accepts has unique nonzero ids, only parent_ids
\* that are 0 or a row's id, path = parent's path + '/' + code and
\* level = parent's level + 1 on every non-root row, and level 1 on every
\* root row.
C7_ValidatorSound ==
  (op = "validate" /\ ret = Ok(TRUE))
    => Invariant1(df) /\ Invariant2(df) /\ Invariant3(df) /\ Invariant4(df)

\* C7, amended: a table validate() accepts has only parent_ids that are 0 or
\* a row's id, and on every non-root row a path that starts with the path of
\* the first row carrying its parent_id followed by '/', and a level one
\* above that row's.
C7_ValidatorSoundAmended ==
  (op = "validate" /\ ret = Ok(TRUE))
    => /\ Invariant2(df)
       /\ \A i \in 1..Len(df) :
            df[i].parent_id # 0 =>
              /\ IsPrefix(RowOf(df, df[i].parent_id).path \o SEP, df[i].path)
              /\ df[i].level = RowOf(df, df[i].parent_id).level + 1

\* An accepted table with a non-root row.
C7_Witness ==
  /\ op = "validate"
  /\ ret = Ok(TRUE)
  /\ \E i \in 1..Len(df) : df[i].parent_id # 0

\* C8: tree_to_df on a fresh TreeDF writes one row per node, in depth-first
\* pre-order with children in input order: the row at the pre-order place of
\* a node carries the node's code and name and points at its parent's row.
C8_PreOrder ==
  (op = "tree_to_df" /\ BuiltOnce) =>
    /\ Len(df) = Cardinality(Positions(calls[1]))
    /\ \A p \in Positions(calls[1]) :
         LET row == df[Rank(calls[1], p)]
         IN  /\ row.code = NodeAt(calls[1], p).dept
             /\ row.name = NodeAt(calls[1], p).name
             /\ row.parent_id =
                  IF p = <<>> THEN 0 ELSE df[Rank(calls[1], Parent(p))].id

\* A first child with a subtree of its own, and a second child after it.
C8_Witness ==
  /\ op = "tree_to_df"
  /\ BuiltOnce
  /\ calls[1] = SampleTree
  /\ Len(df) = 4

\* The calls that find no row end in an error.
C9_ErrorOutcome ==
  /\ (op \in {"get_descendants", "get_ancestors", "get_siblings"}
        /\ arg \notin Ids(df)) => ~ret.ok
  /\ (op = "df_to_tree" /\ \A i \in 1..Len(df) : df[i].parent_id # 0)
        => ~ret.ok

\* C9: get_descendants, get_ancestors and get_siblings of an id no row has,
\* and df_to_tree of a table with no parent_id = 0 row, end in an error, and
\* a call that ends in an error leaves the table as it was.
C9_LookupFailure ==
  /\ []C9_ErrorOutcome
  /\ [][~ret'.ok => df' = df]_vars

\* A lookup in a table that holds rows, by an id none of them has.
C9_Witness ==
  /\ op = "get_siblings"
  /\ Len(df) > 0
  /\ arg \notin Ids(df)
  /\ ret = IndexError

\* The number of rows written before the k-th top-level call.
RECURSIVE RowsBefore(_)
RowsBefore(k) == IF k <= 1 THEN 0 ELSE RowsBefore(k - 1) + Cardinality(Positions(calls[k - 1]))

\* The call that wrote row i.
CallOf(i) == CHOOSE k \in 1..Len(calls) :
               RowsBefore(k) < i /\ i <= RowsBefore(k + 1)

\* C10: after any sequence of top-level tree_to_df calls on a TreeDF that
\* started empty, row i has id i, and a non-root row's parent_id is the id of
\* an earlier row written by the same call.
C10_SequentialIds ==
  /\ Len(df) = RowsBefore(Len(calls) + 1)
  /\ \A i \in 1..Len(df) :
       /\ df[i].id = i
       /\ df[i].parent_id # 0 =>
            /\ df[i].parent_id < i
            /\ df[i].parent_id > RowsBefore(CallOf(i))

C10_Witness ==
  /\ Len(calls) = 2
  /\ \E i \in 1..Len(df) : CallOf(i) = 2 /\ df[i].parent_id # 0

====
